---- MODULE Spec2Model ----
(***************************************************************************)
(* A model of the ray caster of raycast/lib/lib.py (Player.cast_ray,       *)
(* Player.get_rays, Player.draw_3D, Player.update, Level.set_all_brightness)*)
(* and of the tick handler GameView.on_update of raycast/lib/views.py.     *)
(*                                                                         *)
(* Numbers.  The program computes in floats.  Here every length is a       *)
(* fixed-point integer counting 1/Unit of a tile edge, and every slope is  *)
(* a rational <<numerator, denominator>>.  Angles are kept in degrees; a   *)
(* "radian" value r of the program is represented by the degree value it   *)
(* was converted from, so math.pi is 180 and the comparisons against pi,   *)
(* pi/2 and 3pi/2 are comparisons against 180, 90 and 270.  Angles are     *)
(* multiples of AngleStep degrees; math.tan is a table over them (Tan).    *)
(* RayInfo.distance (a Euclidean norm) is represented by its square.       *)
(***************************************************************************)
EXTENDS Integers, Sequences, FiniteSets, TLC

\* -------------------------------------------------------------- bounds
\* math.tan at 90 and 270 degrees is a huge finite float (1.6e16, 5.4e15)
\* and at 180 degrees a tiny negative one (-1.2e-16): 2^HugeBits stands for
\* "huge" and its reciprocal for "tiny".
HugeBits == 5
\* View distances tried by direct cast_ray calls: 0..MaxVD and FarVD.
MaxVD == 3
FarVD == 10
\* Ray counts tried by get_rays: 1..MaxRays.
MaxRays == 4
\* The number of screen columns draw_3D casts (600 in the program).
NumColumns == 3
\* Operations per behaviour.
MaxOps == 2
\* on_update keeps the player within MoveBound tiles of the spawn point,
\* the heading within TurnBound quarter turns of the initial one and the
\* look offset within LookBound pixels.
MoveBound == 3
TurnBound == 1
LookBound == 8
\* Keys held down at once.
MaxKeys == 2

\* ----------------------------------------------------- program constants
PI == 180
PI_HALVES == 90
THREEPI_ON_TWO == 270
TAU == 360
\* Player.speed
Speed == 3

TanHuge == 2 ^ HugeBits
\* Fixed-point units per tile edge: camera coordinates are multiples of a
\* quarter tile and slopes have denominators 1, 2, 4 or TanHuge, so every
\* product below is exact.
Unit == 4 * TanHuge
\* The angle table's resolution: six steps per quadrant (15 degrees).
AngleStep == PI_HALVES \div 6

VARIABLES
    level_map,      \* Level.map: rows bottom-up, each a sequence of tile ids
    light,          \* Tile.light of every tile, by <<col, row>>
    pos,            \* Player.pos, [x, y] in fixed-point units
    rot,            \* Player.rot, degrees
    dx, dy, da,     \* Player.dx, dy, da: the per-tick intents
    look,           \* Player.look
    view_distance,  \* Player.view_distance
    fov,            \* Player.fov
    ret,            \* what the last operation returned or raised
    dim,            \* the light last given to set_all_brightness (<<>>: never called)
    carried,        \* tiles carried by the RayInfos cast_ray returned since then
    nops            \* operations performed

vars == <<level_map, light, pos, rot, dx, dy, da, look, view_distance, fov,
          ret, dim, carried, nops>>

\* ------------------------------------------------------------------ Level
width == Len(level_map[1])
height == Len(level_map)

\* Tile objects, named by their grid coordinates <<ix, iy>>.
all_tiles == {<<c, r>> : c \in 0..(width - 1), r \in 0..(height - 1)}

NoTile == <<>>
TileId(map_x, map_y) == level_map[map_y + 1][map_x + 1]

\* The hollow 5x5 box of the spec's scenario, and a 4x3 level whose border
\* has air cells and which holds a tile of unknown id.
Box5 == << <<1, 1, 1, 1, 1>>,
           <<1, 0, 0, 0, 1>>,
           <<1, 0, 0, 0, 1>>,
           <<1, 0, 0, 0, 1>>,
           <<1, 1, 1, 1, 1>> >>
Open43 == << <<1, 1, 0, 1>>,
             <<0, 0, 0, 2>>,
             <<1, 0, 1, 1>> >>
Levels == {Box5, Open43}

\* ------------------------------------------------------------- arithmetic
\* Python's int() on a float: truncation toward zero.  The result is a
\* whole number of tiles.
Trunc(v) == IF v >= 0 THEN v \div Unit ELSE -((-v) \div Unit)

\* value * slope, slope a rational <<n, d>> with d > 0.
Mul(v, q) == (v * q[1]) \div q[2]
RNeg(q) == <<-q[1], q[2]>>
\* 1 / q for q # 0.
RInv(q) == IF q[1] > 0 THEN <<q[2], q[1]>> ELSE <<-q[2], -q[1]>>

\* math.tan over the multiples of AngleStep in [0, 360).  The values at
\* 15, 30, 60 and 75 degrees are rounded to a power of two (the float is a
\* rounding too); tan(0) is exactly 0, and the floats at 90, 180 and 270
\* degrees are +huge, -tiny and +huge.
Tan(a) ==
    IF a = 0 THEN <<0, 1>>
    ELSE IF a = PI THEN <<-1, TanHuge>>
    ELSE CASE (a % PI) \div AngleStep = 1 -> <<1, 4>>
           [] (a % PI) \div AngleStep = 2 -> <<1, 2>>
           [] (a % PI) \div AngleStep = 3 -> <<1, 1>>
           [] (a % PI) \div AngleStep = 4 -> <<2, 1>>
           [] (a % PI) \div AngleStep = 5 -> <<4, 1>>
           [] (a % PI) \div AngleStep = 6 -> <<TanHuge, 1>>
           [] (a % PI) \div AngleStep = 7 -> <<-4, 1>>
           [] (a % PI) \div AngleStep = 8 -> <<-2, 1>>
           [] (a % PI) \div AngleStep = 9 -> <<-1, 1>>
           [] (a % PI) \div AngleStep = 10 -> <<-1, 2>>
           [] (a % PI) \div AngleStep = 11 -> <<-1, 4>>

\* degrees_to_radians: normalised into [0, 2pi).
degrees_to_radians(d) == d % TAU

\* Point.distance_to, squared.
Distance2(p, q) == (p.x - q.x) * (p.x - q.x) + (p.y - q.y) * (p.y - q.y)

\* --------------------------------------------------------------- cast_ray
\* An argument of cast_ray: a number of degrees, or (get_rays' single-ray
\* case) the tuple (0, 0).
Num(v) == [kind |-> "number", v |-> v]
ZeroPair == [kind |-> "tuple", v |-> 0]

\* The loops stop a runaway sweep after IterCap iterations.
IterCap == FarVD + 2

InBounds(map_x, map_y) ==
    map_x >= 0 /\ map_x < width /\ map_y >= 0 /\ map_y < height

\* HStep with `dof -= 1` inside the bounds check: a sample outside the grid
\* no longer counts down.
HStep_CountInside(s, ray_angle, x_offset, y_offset) ==
    LET map_x == Trunc(s.x)
        map_y == IF ray_angle > PI THEN Trunc(s.y - Unit) ELSE Trunc(s.y)
        inside == InBounds(map_x, map_y)
        hit == inside /\ TileId(map_x, map_y) # 0
        air == inside /\ TileId(map_x, map_y) = 0
    IN [x |-> IF air THEN s.x + x_offset ELSE s.x,
        y |-> IF air THEN s.y + y_offset ELSE s.y,
        dof |-> IF inside THEN (IF hit THEN 0 ELSE s.dof) - 1 ELSE s.dof,
        tile |-> IF hit THEN <<map_x, map_y>> ELSE s.tile,
        n |-> s.n + 1]

\* One iteration of the horizontal-line loop.  s: [x, y, dof, tile, n],
\* n counting the iterations.
HStep(s, ray_angle, x_offset, y_offset) ==
    LET map_x == Trunc(s.x)
        map_y == IF ray_angle > PI THEN Trunc(s.y - Unit) ELSE Trunc(s.y)
        hit == InBounds(map_x, map_y) /\ TileId(map_x, map_y) # 0
        air == InBounds(map_x, map_y) /\ TileId(map_x, map_y) = 0
    IN [x |-> IF air THEN s.x + x_offset ELSE s.x,
        y |-> IF air THEN s.y + y_offset ELSE s.y,
        dof |-> (IF hit THEN 0 ELSE s.dof) - 1,
        tile |-> IF hit THEN <<map_x, map_y>> ELSE s.tile,
        n |-> s.n + 1]

RECURSIVE HLoop(_, _, _, _)
HLoop(s, ray_angle, x_offset, y_offset) ==
    IF s.dof > 0 /\ s.n < IterCap
    THEN HLoop(HStep(s, ray_angle, x_offset, y_offset), ray_angle, x_offset, y_offset)
    ELSE s

\* The horizontal line check: the first row boundary ahead, then the loop.
HSweep(ray_angle, atan, dof) ==
    LET up == ray_angle > PI
        ray_y0 == IF up THEN Trunc(pos.y) * Unit ELSE (Trunc(pos.y) + 1) * Unit
        ray_x0 == Mul(pos.y - ray_y0, atan) + pos.x
        y_offset == IF up THEN -Unit ELSE Unit
        x_offset == Mul(-y_offset, atan)
        straight == ray_angle = 0 \/ ray_angle = PI
        s0 == [x |-> IF straight THEN Trunc(pos.x) * Unit ELSE ray_x0,
               y |-> IF straight THEN Trunc(pos.y) * Unit ELSE ray_y0,
               dof |-> dof, tile |-> NoTile, n |-> 0]
    IN HLoop(s0, ray_angle, x_offset, y_offset)

\* One iteration of the vertical-line loop.
VStep(s, ray_angle, x_offset, y_offset) ==
    LET left == THREEPI_ON_TWO > ray_angle /\ ray_angle > PI_HALVES
        map_x == IF left THEN Trunc(s.x - Unit) ELSE Trunc(s.x)
        map_y == Trunc(s.y)
        hit == InBounds(map_x, map_y) /\ TileId(map_x, map_y) # 0
        air == InBounds(map_x, map_y) /\ TileId(map_x, map_y) = 0
    IN [x |-> IF air THEN s.x + x_offset ELSE s.x,
        y |-> IF air THEN s.y + y_offset ELSE s.y,
        dof |-> (IF hit THEN 0 ELSE s.dof) - 1,
        tile |-> IF hit THEN <<map_x, map_y>> ELSE s.tile,
        n |-> s.n + 1]

RECURSIVE VLoop(_, _, _, _)
VLoop(s, ray_angle, x_offset, y_offset) ==
    IF s.dof > 0 /\ s.n < IterCap
    THEN VLoop(VStep(s, ray_angle, x_offset, y_offset), ray_angle, x_offset, y_offset)
    ELSE s

\* The vertical line check.
VSweep(ray_angle, ntan, dof) ==
    LET left == THREEPI_ON_TWO > ray_angle /\ ray_angle > PI_HALVES
        ray_x0 == IF left THEN Trunc(pos.x) * Unit ELSE (Trunc(pos.x) + 1) * Unit
        ray_y0 == Mul(pos.x - ray_x0, ntan) + pos.y
        x_offset == IF left THEN -Unit ELSE Unit
        y_offset == Mul(-x_offset, ntan)
        straight == ray_angle = 0 \/ ray_angle = PI
        s0 == [x |-> IF straight THEN Trunc(pos.x) * Unit ELSE ray_x0,
               y |-> IF straight THEN Trunc(pos.y) * Unit ELSE ray_y0,
               dof |-> dof, tile |-> NoTile, n |-> 0]
    IN VLoop(s0, ray_angle, x_offset, y_offset)

\* A call that raised: no RayInfo, no tile lit.
Raised(e, angle) ==
    [err |-> e, angle |-> angle, point |-> [x |-> 0, y |-> 0], distance2 |-> 0,
     tile |-> NoTile, side |-> 0,
     h |-> [x |-> 0, y |-> 0, dof |-> 0, tile |-> NoTile, n |-> 0],
     v |-> [x |-> 0, y |-> 0, dof |-> 0, tile |-> NoTile, n |-> 0],
     lit |-> {}]

\* Lit lighting the tile of either sweep.
Lit_Both(h, v, hd, vd) ==
    (IF v.tile # NoTile THEN {v.tile} ELSE {}) \cup (IF h.tile # NoTile THEN {h.tile} ELSE {})

\* The tiles whose light the end of cast_ray sets to (1, 1, 1).
Lit(h, v, hd, vd) ==
    IF hd > vd
    THEN (IF v.tile # NoTile THEN {v.tile} ELSE {})
    ELSE (IF h.tile # NoTile THEN {h.tile} ELSE {})

\* Winner with the comparison turned round: the farther sweep wins.
Winner_Farther(angle, h, v, hd, vd) ==
    [err |-> "none", angle |-> angle,
     point |-> IF hd < vd THEN [x |-> v.x, y |-> v.y] ELSE [x |-> h.x, y |-> h.y],
     distance2 |-> IF hd < vd THEN vd ELSE hd,
     tile |-> IF hd < vd THEN v.tile ELSE h.tile,
     side |-> IF hd < vd THEN 0 ELSE 1,
     h |-> h, v |-> v,
     lit |-> IF hd < vd THEN (IF v.tile # NoTile THEN {v.tile} ELSE {})
                        ELSE (IF h.tile # NoTile THEN {h.tile} ELSE {})]

\* The end of cast_ray: the nearer sweep wins, its tile is lit, and the
\* RayInfo (angle, point, distance2, tile, side) is returned.  h and v are
\* the two sweeps' final states, hd and vd their squared distances.
Winner(angle, h, v, hd, vd) ==
    [err |-> "none", angle |-> angle,
     point |-> IF hd > vd THEN [x |-> v.x, y |-> v.y] ELSE [x |-> h.x, y |-> h.y],
     distance2 |-> IF hd > vd THEN vd ELSE hd,
     tile |-> IF hd > vd THEN v.tile ELSE h.tile,
     side |-> IF hd > vd THEN 0 ELSE 1,
     h |-> h, v |-> v,
     lit |-> Lit(h, v, hd, vd)]

\* Player.cast_ray(angle, view_distance): the RayInfo, the two sweeps'
\* final states and the tiles lit; or the exception raised.
cast_ray(angle, dist) ==
    IF angle.kind # "number" THEN Raised("TypeError", angle)
    ELSE LET Sweeps(h, v) == Winner(angle, h, v, Distance2(pos, h), Distance2(pos, v))
             Cast(ray_angle, t) ==
                 IF t[1] = 0 THEN Raised("ZeroDivisionError", angle)
                 ELSE Sweeps(HSweep(ray_angle, RNeg(RInv(t)), dist),
                             VSweep(ray_angle, RNeg(t), dist))
             At(ray_angle) == Cast(ray_angle, Tan(ray_angle))
         IN At(degrees_to_radians(rot + angle.v))

\* Tile.light after a call that lit the tiles in `lit`.
Relit(lit) == [t \in all_tiles |-> IF t \in lit THEN <<4, 4, 4>> ELSE light[t]]

\* --------------------------------------------------------------- get_rays
\* np.linspace(start, stop, num) for num > 1: start + i * step, the last
\* element set to stop.
Linspace(start, stop, num) ==
    [i \in 1..num |-> IF i = num THEN stop
                      ELSE start + ((i - 1) * (stop - start)) \div (num - 1)]

\* The angles get_rays(rays, f) casts.
RayAngles(rays, f) ==
    IF rays > 1
    THEN LET half_fov == f \div 2
             ls == Linspace(-half_fov, half_fov, rays)
         IN [i \in 1..rays |-> Num(ls[i])]
    ELSE <<ZeroPair>>

\* The fans this model can cast: fov / 2 and every offset are whole
\* multiples of AngleStep degrees.
OnTable(rays, f) ==
    /\ f % (2 * AngleStep) = 0
    /\ rays > 1 => \A i \in 0..(rays - 1) :
                      /\ (i * f) % (rays - 1) = 0
                      /\ ((i * f) \div (rays - 1)) % AngleStep = 0

\* The index of the first cast of `casts` that raised, or Len(casts) + 1.
FirstRaise(casts) ==
    IF \A i \in 1..Len(casts) : casts[i].err = "none" THEN Len(casts) + 1
    ELSE CHOOSE i \in 1..Len(casts) :
             /\ casts[i].err # "none"
             /\ \A j \in 1..(i - 1) : casts[j].err = "none"

\* Player.get_rays(rays, f): the RayInfos appended before the loop ended or
\* a cast raised, the exception if one did, and the tiles lit meanwhile.
get_rays(rays, f) ==
    LET Fan(casts, stop) ==
            [err |-> IF stop > Len(casts) THEN "none" ELSE casts[stop].err,
             infos |-> SubSeq(casts, 1, stop - 1),
             lit |-> UNION {casts[i].lit : i \in 1..(stop - 1)}]
        Loop(casts) == Fan(casts, FirstRaise(casts))
        Over(args) == Loop([i \in 1..Len(args) |-> cast_ray(args[i], view_distance)])
    IN Over(RayAngles(rays, f))

\* ---------------------------------------------------------------- draw_3D
\* math.cos(degrees_to_radians(a)) < 0.  The floats at 90 and 270 degrees
\* are +6.1e-17 and -1.8e-16.
CosNegative(a) ==
    degrees_to_radians(a) > PI_HALVES /\ degrees_to_radians(a) <= THREEPI_ON_TWO

\* What the body of draw_3D's loop does with one RayInfo: a division by
\* zero (d = 0), an attribute error (info.tile is None), or a rectangle.
Column(info) ==
    IF info.distance2 = 0 THEN "ZeroDivisionError"
    ELSE IF info.tile = NoTile THEN "AttributeError"
    ELSE IF CosNegative(info.angle.v) THEN "inverted"
    ELSE "wall"

\* The index of the first RayInfo of `infos` at which the loop raises, or
\* Len(infos) + 1.
FirstBadColumn(infos) ==
    IF \A i \in 1..Len(infos) : Column(infos[i]) \in {"wall", "inverted"}
    THEN Len(infos) + 1
    ELSE CHOOSE i \in 1..Len(infos) :
             /\ Column(infos[i]) \notin {"wall", "inverted"}
             /\ \A j \in 1..(i - 1) : Column(infos[j]) \in {"wall", "inverted"}

\* Player.draw_3D: the fan g, the exception raised (by get_rays or by the
\* loop), whether the sky and ground were filled, and the column indices
\* (from 0) for which a rectangle was drawn.
draw_3D ==
    LET Columns(g, stop) ==
            [g |-> g,
             err |-> IF stop > Len(g.infos) THEN "none" ELSE Column(g.infos[stop]),
             background |-> TRUE,
             columns |-> {i - 1 : i \in 1..(stop - 1)}]
        Draw(g) ==
            IF g.err # "none"
            THEN [g |-> g, err |-> g.err, background |-> FALSE, columns |-> {}]
            ELSE Columns(g, FirstBadColumn(g.infos))
    IN Draw(get_rays(NumColumns, fov))

\* ------------------------------------------------------------------ light
FullLight == <<4, 4, 4>>
\* Lights given to set_all_brightness, in quarters: (1, 1, 1),
\* (0.5, 0.5, 0.5), (0.25, 0.5, 0.75).
Lights == {FullLight, <<2, 2, 2>>, <<1, 2, 3>>}

\* Level.set_all_brightness(l): every tile's light.
set_all_brightness(l) == [t \in all_tiles |-> l]

\* The tiles carried by the RayInfos of `infos`, added to those carried
\* since the last set_all_brightness.
Carry(infos) ==
    IF dim = <<>> THEN carried
    ELSE carried \cup {infos[i].tile : i \in {j \in 1..Len(infos) :
                                             infos[j].err = "none" /\ infos[j].tile # NoTile}}

Fovs == {0, 90, 180}

\* ------------------------------------------------------------------ state
\* Camera poses tried, in quarter tiles.
CameraPositions == {<<10, 10>>, <<5, 5>>, <<6, 4>>, <<2, 6>>}
Headings == {0, 90, 180, 270}
ViewDistances == (0..MaxVD) \cup {FarVD}
Offsets == {-45, -30, -15, 0, 15, 30, 45}

NoRet == [op |-> "none"]

Init ==
    /\ level_map \in Levels
    /\ light = [t \in all_tiles |-> <<4, 4, 4>>]
    /\ \E p \in CameraPositions : pos = [x |-> p[1] * (Unit \div 4), y |-> p[2] * (Unit \div 4)]
    /\ rot \in Headings
    /\ dx = 0 /\ dy = 0 /\ da = 0
    /\ look = 0
    /\ view_distance = MaxVD
    /\ fov = 90
    /\ ret = NoRet
    /\ dim = <<>>
    /\ carried = {}
    /\ nops = 0

\* A direct call cast_ray(angle, dist).
CastRay(angle, dist) ==
    LET Return(r) ==
            /\ ret' = [op |-> "cast_ray", dist |-> dist, r |-> r]
            /\ light' = Relit(r.lit)
            /\ carried' = Carry(<<r>>)
    IN /\ Return(cast_ray(Num(angle), dist))
       /\ UNCHANGED <<level_map, pos, rot, dx, dy, da, look, view_distance, fov, dim>>

\* get_rays(rays, f).
GetRays(rays, f) ==
    LET Return(g) ==
            /\ ret' = [op |-> "get_rays", rays |-> rays, fov |-> f, g |-> g]
            /\ light' = Relit(g.lit)
            /\ carried' = Carry(g.infos)
    IN /\ OnTable(rays, f)
       /\ Return(get_rays(rays, f))
       /\ UNCHANGED <<level_map, pos, rot, dx, dy, da, look, view_distance, fov, dim>>

\* draw_3D().
Draw3D ==
    LET Return(d) ==
            /\ ret' = [op |-> "draw_3D", d |-> d]
            /\ light' = Relit(d.g.lit)
            /\ carried' = Carry(d.g.infos)
    IN /\ OnTable(NumColumns, fov)
       /\ Return(draw_3D)
       /\ UNCHANGED <<level_map, pos, rot, dx, dy, da, look, view_distance, fov, dim>>

\* Level.set_all_brightness(l).
SetAllBrightness(l) ==
    /\ light' = set_all_brightness(l)
    /\ dim' = l
    /\ carried' = {}
    /\ ret' = [op |-> "set_all_brightness", light |-> l]
    /\ UNCHANGED <<level_map, pos, rot, dx, dy, da, look, view_distance, fov>>

\* ----------------------------------------------------------------- update
\* math.cos and math.sin of a heading that is a whole number of quarter
\* turns (the floats 6.1e-17 and -1.8e-16 are taken as 0).
Cos(a) == CASE a = 0 -> 1 [] a = PI_HALVES -> 0 [] a = PI -> -1 [] a = THREEPI_ON_TWO -> 0
Sin(a) == CASE a = 0 -> 0 [] a = PI_HALVES -> 1 [] a = PI -> 0 [] a = THREEPI_ON_TWO -> -1

\* Player.heading_x, Player.heading_y.
heading_x == Cos(degrees_to_radians(rot))
heading_y == Sin(degrees_to_radians(rot))

\* update without the three resets.
update_KeepIntents(p, delta_time) ==
    [x |-> p.x + p.dx * Speed * delta_time,
     y |-> p.y + p.dy * Speed * delta_time,
     rot |-> p.rot + p.da * Speed * delta_time,
     dx |-> p.dx, dy |-> p.dy, da |-> p.da]

\* Player.update(delta_time) on the fields p = [x, y, rot, dx, dy, da].
update(p, delta_time) ==
    [x |-> p.x + p.dx * Speed * delta_time,
     y |-> p.y + p.dy * Speed * delta_time,
     rot |-> p.rot + p.da * Speed * delta_time,
     dx |-> 0, dy |-> 0, da |-> 0]

Keys == {"LSHIFT", "LCTRL", "W", "S", "A", "D", "EQUAL", "MINUS"}
KeySets == {k \in SUBSET Keys : Cardinality(k) <= MaxKeys}
\* delta_time, in whole seconds.
DeltaTimes == {0, 1}

\* The keyboard handling of GameView.on_update: the intents and the look
\* offset after it, given the keys held down.  speed_mod is 1.5 or 1 (in
\* fixed point), rot_mod 0.25 or 1: 120 * rot_mod is 30 or 120 degrees and
\* 30 * rot_mod is 7.5 or 30 pixels.
Intents(keys) ==
    LET speed_mod == IF "LSHIFT" \in keys THEN (3 * Unit) \div 2 ELSE Unit
        turn == IF "LCTRL" \in keys THEN 30 ELSE 120
        tilt == IF "LCTRL" \in keys THEN (15 * Unit) \div 2 ELSE 30 * Unit
        fwd == (IF "W" \in keys THEN 1 ELSE 0) - (IF "S" \in keys THEN 1 ELSE 0)
    IN [dx |-> dx + fwd * heading_x * speed_mod,
        dy |-> dy + fwd * heading_y * speed_mod,
        da |-> da + (IF "A" \in keys THEN turn ELSE 0) - (IF "D" \in keys THEN turn ELSE 0),
        look |-> look + (IF "EQUAL" \in keys THEN tilt ELSE 0)
                      - (IF "MINUS" \in keys THEN tilt ELSE 0)]

\* GameView.__init__: the player spawns at (18, 3).
SpawnX == 18
SpawnY == 3
\* Player.__init__: rot, view_distance and fov.
SpawnRot == 90
DefaultViewDistance == 30
DefaultFov == 90

Abs(n) == IF n < 0 THEN -n ELSE n
InRange(p, lk) ==
    /\ Abs(p.x - SpawnX * Unit) <= MoveBound * Unit
    /\ Abs(p.y - SpawnY * Unit) <= MoveBound * Unit
    /\ Abs(p.rot - SpawnRot) <= TurnBound * PI_HALVES
    /\ Abs(lk) <= LookBound * Unit

\* The player's fields become those of p.
Moved(p) ==
    /\ pos' = [x |-> p.x, y |-> p.y]
    /\ rot' = p.rot
    /\ dx' = p.dx /\ dy' = p.dy /\ da' = p.da

\* GameView.on_update(delta_time) with `keys` held down: the intents are
\* written, then the player is updated.
OnUpdate(keys, delta_time) ==
    LET Write(i) ==
            LET Integrate(p) ==
                    /\ InRange(p, i.look)
                    /\ Moved(p)
                    /\ look' = i.look
            IN Integrate(update([x |-> pos.x, y |-> pos.y, rot |-> rot,
                                 dx |-> i.dx, dy |-> i.dy, da |-> i.da], delta_time))
    IN /\ Write(Intents(keys))
       /\ ret' = [op |-> "on_update", dt |-> delta_time]
       /\ UNCHANGED <<level_map, light, view_distance, fov, dim, carried, nops>>

\* A direct call update(delta_time).
Update(delta_time) ==
    LET Integrate(p) == InRange(p, look) /\ Moved(p)
    IN /\ Integrate(update([x |-> pos.x, y |-> pos.y, rot |-> rot,
                            dx |-> dx, dy |-> dy, da |-> da], delta_time))
       /\ ret' = [op |-> "update", dt |-> delta_time]
       /\ UNCHANGED <<level_map, light, look, view_distance, fov, dim, carried, nops>>

\* The state GameView.__init__ and Player.__init__ construct.
InitMove ==
    /\ level_map \in Levels
    /\ light = [t \in all_tiles |-> FullLight]
    /\ pos = [x |-> SpawnX * Unit, y |-> SpawnY * Unit]
    /\ rot = SpawnRot
    /\ dx = 0 /\ dy = 0 /\ da = 0
    /\ look = 0
    /\ view_distance = DefaultViewDistance
    /\ fov = DefaultFov
    /\ ret = NoRet
    /\ dim = <<>>
    /\ carried = {}
    /\ nops = 0

NextMove ==
    \/ \E k \in KeySets, t \in DeltaTimes : OnUpdate(k, t)
    \/ \E t \in DeltaTimes : Update(t)

SpecMove == InitMove /\ [][NextMove]_vars

\* The ray caster: direct casts, fans and the perspective pass from a pose.
Next ==
    \/ \E a \in Offsets, d \in ViewDistances : CastRay(a, d) /\ UNCHANGED nops
    \/ \E n \in 1..MaxRays, f \in Fovs : GetRays(n, f) /\ UNCHANGED nops
    \/ Draw3D /\ UNCHANGED nops

Spec == Init /\ [][Next]_vars

\* A frame's lighting: the map is dimmed and rays are cast at the player's
\* view distance, MaxOps operations in all.
Tick == nops < MaxOps /\ nops' = nops + 1

NextLight ==
    \/ \E l \in Lights : SetAllBrightness(l) /\ Tick
    \/ \E a \in Offsets : CastRay(a, view_distance) /\ Tick
    \/ \E n \in 1..MaxRays, f \in Fovs : GetRays(n, f) /\ Tick

SpecLight == Init /\ [][NextLight]_vars

\* ----------------------------------------------------------------- claims
\* The casts the last operation made, each with its view distance.
Casts ==
    CASE ret.op = "cast_ray" -> {[r |-> ret.r, dist |-> ret.dist]}
      [] ret.op = "get_rays" ->
            {[r |-> ret.g.infos[i], dist |-> view_distance] : i \in 1..Len(ret.g.infos)}
      [] ret.op = "draw_3D" ->
            {[r |-> ret.d.g.infos[i], dist |-> view_distance] : i \in 1..Len(ret.d.g.infos)}
      [] OTHER -> {}

\* The absolute angle of a cast, as cast_ray computes it.
RayAngle(r) == degrees_to_radians(rot + r.angle.v)

\* The camera's own cell is inside the grid and is air.
CameraInAir ==
    /\ pos.x >= 0 /\ pos.y >= 0
    /\ InBounds(Trunc(pos.x), Trunc(pos.y))
    /\ TileId(Trunc(pos.x), Trunc(pos.y)) = 0

\* C1: every cast_ray call ends, and each of its two loops runs at most
\* view_distance times: the loop left with dof <= 0 after at most `dist`
\* iterations, whatever the samples were.
C1_SweepsBounded ==
    \A c \in Casts :
        /\ c.r.h.n <= c.dist /\ c.r.h.dof <= 0
        /\ c.r.v.n <= c.dist /\ c.r.v.dof <= 0

\* A cast whose horizontal loop ran all its iterations on samples outside
\* the grid after sampling air, and whose vertical loop stopped early on a
\* solid tile.
C1_Witness ==
    /\ ret.op = "cast_ray" /\ ret.r.err = "none" /\ ret.dist = FarVD
    /\ ret.r.h.n = ret.dist /\ ret.r.h.tile = NoTile
    /\ ~InBounds(Trunc(ret.r.h.x), Trunc(ret.r.h.y))
    /\ ret.r.v.tile # NoTile /\ ret.r.v.n > 1 /\ ret.r.v.n < ret.dist

\* The first solid tile met going cell by cell from <<c, r>> in direction
\* <<dc, dr>>, or NoTile when the grid ends first.
RECURSIVE StraightTile(_, _, _, _)
StraightTile(c, r, dc, dr) ==
    IF ~InBounds(c, r) THEN NoTile
    ELSE IF TileId(c, r) # 0 THEN <<c, r>>
    ELSE StraightTile(c + dc, r + dr, dc, dr)

AxisTile(a) ==
    StraightTile(Trunc(pos.x), Trunc(pos.y),
                 IF a = 0 THEN 1 ELSE IF a = PI THEN -1 ELSE 0,
                 IF a = PI_HALVES THEN 1 ELSE IF a = THREEPI_ON_TWO THEN -1 ELSE 0)

\* C2: a cast along an axis (absolute angle 0, 90, 180 or 270 degrees) from
\* a camera in an air cell raises nothing and returns the first solid tile
\* straight along the camera's row or column (the view distance reaching
\* across the grid).
C2_AxisAligned ==
    (/\ ret.op = "cast_ray" /\ ret.dist = FarVD
     /\ CameraInAir
     /\ RayAngle(ret.r) \in {0, PI_HALVES, PI, THREEPI_ON_TWO})
    => (ret.r.err = "none" /\ ret.r.tile = AxisTile(RayAngle(ret.r)))

\* C3: in the hollow 5x5 box, from (2.5, 2.5) with heading 0 and offset 0,
\* cast_ray with view distance 10 returns the wall at column 4, row 2, at
\* distance exactly 1.5 (squared: 2.25), side 0.
C3_BoxScenario ==
    (/\ level_map = Box5
     /\ pos = [x |-> (5 * Unit) \div 2, y |-> (5 * Unit) \div 2]
     /\ rot = 0
     /\ ret.op = "cast_ray" /\ ret.r.angle = Num(0) /\ ret.dist = 10)
    => (/\ ret.r.err = "none"
        /\ ret.r.tile = <<4, 2>>
        /\ 4 * ret.r.distance2 = 9 * Unit * Unit
        /\ ret.r.side = 0)

\* The RayInfo fields of two casts agree.
SameInfo(r1, r2) ==
    /\ r1.err = r2.err
    /\ r1.tile = r2.tile /\ r1.point = r2.point
    /\ r1.distance2 = r2.distance2 /\ r1.side = r2.side

\* C4: when cast_ray with view distance d1 returned a tile, the cast of the
\* same ray with any larger view distance returns the same tile, point,
\* distance and side.
C4_Monotone ==
    (ret.op = "cast_ray" /\ ret.r.err = "none" /\ ret.r.tile # NoTile)
    => \A d2 \in (ret.dist + 1)..(FarVD + 1) :
           SameInfo(cast_ray(ret.r.angle, d2), ret.r)

\* A cast that returned a tile while its losing sweep was still marching:
\* one more step of view distance moves the loser's end point.
C4_Witness ==
    /\ ret.op = "cast_ray" /\ ret.r.err = "none" /\ ret.r.tile # NoTile
    /\ ret.dist < FarVD
    /\ ret.r.side = 0 /\ ret.r.h.tile = NoTile
    /\ cast_ray(ret.r.angle, ret.dist + 1).h # ret.r.h

\* C5: get_rays(N, fov) with N >= 2 returns N RayInfos, in casting order,
\* with non-decreasing offsets from -fov/2 to +fov/2.
C5_Fan ==
    (ret.op = "get_rays" /\ ret.rays >= 2)
    => (/\ ret.g.err = "none"
        /\ Len(ret.g.infos) = ret.rays
        /\ \A i \in 1..(Len(ret.g.infos) - 1) :
               ret.g.infos[i].angle.v <= ret.g.infos[i + 1].angle.v
        /\ 2 * ret.g.infos[1].angle.v = -ret.fov
        /\ 2 * ret.g.infos[ret.rays].angle.v = ret.fov)

\* C6: get_rays with one ray returns one RayInfo, of offset 0, and raises
\* nothing.
C6_SingleRay ==
    (ret.op = "get_rays" /\ ret.rays = 1)
    => (/\ ret.g.err = "none"
        /\ Len(ret.g.infos) = 1
        /\ ret.g.infos[1].angle = Num(0))

\* A RayInfo for which no wall is to be drawn: no tile, or a corrected
\* distance d = distance * cos(offset) <= 0.
NoWall(info) ==
    info.tile = NoTile \/ info.distance2 = 0 \/ CosNegative(info.angle.v)

\* C7: when draw_3D has cast its fan, a ray with no tile or with d <= 0
\* gets no wall column and raises nothing, and every other ray of the fan
\* gets its column.
C7_NoWallColumn ==
    (ret.op = "draw_3D" /\ ret.d.g.err = "none")
    => (/\ ret.d.err = "none"
        /\ \A i \in 1..Len(ret.d.g.infos) :
               (i - 1 \in ret.d.columns) <=> ~NoWall(ret.d.g.infos[i]))

C9_Update ==
    [][(ret'.op \in {"on_update", "update"})
       => /\ \E k \in (IF ret'.op = "update" THEN {{}} ELSE KeySets) :
                 /\ pos'.x = pos.x + Intents(k).dx * Speed * ret'.dt
                 /\ pos'.y = pos.y + Intents(k).dy * Speed * ret'.dt
                 /\ rot' = rot + Intents(k).da * Speed * ret'.dt
                 /\ look' = Intents(k).look
                 /\ (ret'.dt = 0 \/ (Intents(k).dx = 0 /\ Intents(k).dy = 0 /\ Intents(k).da = 0))
                    => (pos' = pos /\ rot' = rot)
          /\ dx' = 0 /\ dy' = 0 /\ da' = 0
          /\ UNCHANGED <<level_map, light, view_distance, fov>>]_vars

\* After a tick that moved and turned the player, the intents are 0.
C9_Witness ==
    /\ ret.op = "on_update" /\ ret.dt > 0
    /\ pos # [x |-> SpawnX * Unit, y |-> SpawnY * Unit]
    /\ rot # SpawnRot
    /\ dx = 0 /\ dy = 0 /\ da = 0

\* C10: no sweep registers a tile for a sample that lies outside the grid:
\* a horizontal-line sample with x < 0, a vertical-line sample with y < 0.
C10_NoHitOutside ==
    \A c \in Casts :
        /\ c.r.h.tile # NoTile => (c.r.h.x >= 0 /\ c.r.h.x < width * Unit)
        /\ c.r.v.tile # NoTile => (c.r.v.y >= 0 /\ c.r.v.y < height * Unit)
====
